---- MODULE Spec2Model ----
(***************************************************************************)
(* The expression evaluator of fend's core (src/core/src/ast.rs): the      *)
(* recursive function `evaluate` as a machine with an explicit call stack, *)
(* one frame per call of `evaluate`, and `resolve_identifier`.  A history  *)
(* variable `log` records, in order, every cancellation poll, identifier   *)
(* resolution, Scope lookup, Number primitive, function call and return.   *)
(***************************************************************************)
EXTENDS Integers, Sequences, FiniteSets, TLC

VARIABLES stack, ret, int, scope, log

vars == <<stack, ret, int, scope, log>>

(* ------------------------------ bounds --------------------------------- *)

\* Largest number of nodes of an input expression tree.
MaxNodes == 3
\* Numeric literals of the input range over 0..MaxNum.
MaxNum == 1
\* Numbers are opaque to the evaluator; their magnitude is kept modulo NumMod.
NumMod == 5

(* ------------------------------ numbers -------------------------------- *)

FormattingStyle(name, digits) == [name |-> name, digits |-> digits]

Number(v, imag) ==
    [v |-> v % NumMod, imag |-> imag, style |-> FormattingStyle("Auto", 0), base |-> 10]

\* Number::i()
NumberI == Number(1, TRUE)

\* Base::from_plain_base: a base from 2 to 36, an error otherwise.
from_plain_base(b) ==
    IF b >= 2 /\ b <= 36 THEN [kind |-> "ok", val |-> b]
    ELSE [kind |-> "err", msg |-> "InvalidBase"]

(* ------------------------------ values --------------------------------- *)

VNum(n) == [t |-> "Num", n |-> n]
VFunc(name) == [t |-> "Func", name |-> name]
VFormat(fmt) == [t |-> "Format", fmt |-> fmt]
VDp == [t |-> "Dp"]
VBase(base) == [t |-> "Base", base |-> base]
NoValue == [t |-> "None"]

(* ----------------------------- outcomes -------------------------------- *)

Ok(v) == [kind |-> "ok", val |-> v]
Err(m) == [kind |-> "err", msg |-> m]
Interrupt == [kind |-> "int"]
Panic == [kind |-> "panic"]
None == [kind |-> "none"]

IsFailure(r) == r.kind \in {"err", "int", "panic"}

\* test_int: the one poll of the interrupt capability.
test_int(i) == IF i THEN Interrupt ELSE Ok(NoValue)

\* Value::expect_num: the number of a Numeric value, a type mismatch otherwise.
expect_num(v) == IF v.t = "Num" THEN Ok(v.n) ELSE Err("ExpectedNumber")

\* IntErr::into_string: the error payload rendered as text, an interrupt kept.
into_string(r) == IF r.kind = "err" THEN Err(r.msg) ELSE r

\* IntErr::unwrap: an interrupt kept, any other error a panic.
unwrap(r) == IF r.kind = "err" THEN Panic ELSE r

(* ------------------------- Number primitives --------------------------- *)

RECURSIVE PowMod(_, _)
PowMod(x, k) == IF k = 0 THEN 1 % NumMod ELSE (x * PowMod(x, k - 1)) % NumMod

RECURSIVE FactMod(_)
FactMod(k) == IF k = 0 THEN 1 % NumMod ELSE (k * FactMod(k - 1)) % NumMod

\* -x
neg(a) == [a EXCEPT !.v = (NumMod - a.v) % NumMod]

\* with_format, with_base: infallible, and given no interrupt capability.
with_format(a, fmt) == [a EXCEPT !.style = fmt]
with_base(a, base) == [a EXCEPT !.base = base]

\* The result of a primitive that does not stop for an interrupt.
PrimResult(name, a, b) ==
    CASE name = "add" -> Ok([a EXCEPT !.v = (a.v + b.v) % NumMod, !.imag = a.imag \/ b.imag])
      [] name = "sub" -> Ok([a EXCEPT !.v = (a.v + NumMod - b.v) % NumMod, !.imag = a.imag \/ b.imag])
      [] name = "mul" -> Ok([a EXCEPT !.v = (a.v * b.v) % NumMod, !.imag = a.imag \/ b.imag])
      [] name = "div" -> IF b.v = 0 THEN Err("DivisionByZero")
                         ELSE Ok([a EXCEPT !.v = a.v \div b.v, !.imag = a.imag \/ b.imag])
      [] name = "pow" -> Ok([a EXCEPT !.v = PowMod(a.v, b.v), !.imag = a.imag \/ b.imag])
      [] name = "factorial" -> IF a.imag THEN Err("FactorialOfNonInteger")
                               ELSE Ok([a EXCEPT !.v = FactMod(a.v)])
      [] name = "convert_to" -> IF a.imag # b.imag THEN Err("IncompatibleConversion")
                                ELSE Ok([a EXCEPT !.style = b.style, !.base = b.base])

\* A primitive that is handed the interrupt capability may also stop with an
\* interrupt once one is requested.
PrimOutcomes(name, a, b, i) ==
    {PrimResult(name, a, b)} \cup (IF i THEN {Interrupt} ELSE {})

\* The builtin functions behind a Function reference: opaque to the evaluator.
CallResult(name, x) ==
    IF name \in {"ln", "log2", "log10"} /\ x.v = 0 THEN Err("LogOfZero")
    ELSE Ok(VNum(x))

CallOutcomes(name, x, i) ==
    {CallResult(name, x)} \cup (IF i THEN {Interrupt} ELSE {})

(* ---------------------------- expressions ------------------------------ *)

UnaryKinds == {"Parens", "UnaryMinus", "UnaryPlus", "UnaryDiv", "Factorial"}
ArithKinds == {"Add", "Sub", "Mul", "Div", "Pow"}
ApplyKinds == {"Apply", "ApplyFunctionCall", "ApplyMul"}
BinaryKinds == ArithKinds \cup ApplyKinds \cup {"As"}

Num(n) == [kind |-> "Num", n |-> n]
Ident(s) == [kind |-> "Ident", ident |-> s]
Unary(k, e) == [kind |-> k, x |-> e]
Binary(k, l, r) == [kind |-> k, a |-> l, b |-> r]

\* The primitive of an arithmetic node.
ArithPrim(k) ==
    CASE k = "Add" -> "add" [] k = "Sub" -> "sub" [] k = "Mul" -> "mul"
      [] k = "Div" -> "div" [] k = "Pow" -> "pow"

\* Every application allowed to multiply: true passed by ApplyFunctionCall too.
AllowMultiplicationAlways(k) == TRUE

\* No application forced to multiply: false passed by ApplyMul too.
ForceMultiplicationNever(k) == FALSE

\* The allow_multiplication and force_multiplication arguments of Value::apply.
AllowMultiplication(k) == k \in {"Apply", "ApplyMul"}
ForceMultiplication(k) == k = "ApplyMul"

(* ------------------------ identifier resolution ------------------------ *)

GnuFunctions ==
    {"exp", "sqrt", "ln", "log2", "log10", "tan", "asin"}

DefaultFunctions ==
    {"sqrt", "cbrt", "abs", "sin", "cos", "tan", "asin", "acos", "atan",
     "sinh", "cosh", "tanh", "asinh", "acosh", "atanh", "ln", "log2", "log10",
     "exp", "base"}

Table(out) == [via |-> "table", out |-> out]
ViaEval(input) == [via |-> "eval", input |-> input]
ViaScope == [via |-> "scope"]

BaseValue(b) ==
    LET r == from_plain_base(b) IN IF r.kind = "ok" THEN Ok(VBase(r.val)) ELSE r

\* The table of the compatibility mode.
ResolveGnu(ident) ==
    CASE ident \in GnuFunctions -> Table(Ok(VFunc(ident)))
      [] ident \in {"approx.", "approximately"} -> Table(Ok(VFunc("approximately")))
      [] OTHER -> ViaScope

\* The table of the default mode.
ResolveDefault(ident) ==
    CASE ident = "pi" -> ViaEval("approx. 3.141592653589793238")
      [] ident = "e" -> ViaEval("approx. 2.718281828459045235")
      [] ident = "i" -> Table(Ok(VNum(NumberI)))
      [] ident \in DefaultFunctions -> Table(Ok(VFunc(ident)))
      [] ident \in {"approx.", "approximately"} -> Table(Ok(VFunc("approximately")))
      [] ident = "auto" -> Table(Ok(VFormat(FormattingStyle("Auto", 0))))
      [] ident = "exact" ->
           Table(Ok(VFormat(FormattingStyle("ExactFloatWithFractionFallback", 0))))
      [] ident = "fraction" -> Table(Ok(VFormat(FormattingStyle("ExactFraction", 0))))
      [] ident = "float" -> Table(Ok(VFormat(FormattingStyle("ExactFloat", 0))))
      [] ident = "dp" -> Table(Ok(VDp))
      [] ident = "decimal" -> Table(BaseValue(10))
      [] ident \in {"hex", "hexadecimal"} -> Table(BaseValue(16))
      [] ident = "binary" -> Table(BaseValue(2))
      [] ident = "octal" -> Table(BaseValue(8))
      [] OTHER -> ViaScope

\* The mode flag ignored: every name resolved by the default table.
resolve_identifier_modeless(ident, options) == ResolveDefault(ident)

\* How resolve_identifier resolves `ident`: at once from the builtin table of
\* the mode, by evaluating a fixed input text, or by a Scope lookup.
resolve_identifier(ident, options) ==
    IF options.gnu_compatible THEN ResolveGnu(ident) ELSE ResolveDefault(ident)

\* ParseOptions::default()
DefaultOptions == [gnu_compatible |-> FALSE]

\* The tree the parser makes of the two fixed input texts of `eval`.
Parse(input) ==
    IF input = "approx. 3.141592653589793238"
    THEN Binary("Apply", Ident("approx."), Num(Number(3, FALSE)))
    ELSE Binary("Apply", Ident("approx."), Num(Number(2, FALSE)))

\* Scope::get: the bound value, or the unknown-identifier error.
scope_get(sc, ident) ==
    IF ident \in DOMAIN sc THEN Ok(sc[ident]) ELSE Err("UnknownIdentifier")

\* Value::apply, up to the primitive or function it ends in.
apply(self, other, allow_multiplication, force_multiplication) ==
    CASE self.t = "Num" ->
           IF ~allow_multiplication THEN [do |-> "err", out |-> Err("NotAFunction")]
           ELSE IF expect_num(other).kind # "ok"
                THEN [do |-> "err", out |-> expect_num(other)]
                ELSE [do |-> "mul", a |-> self.n, b |-> other.n]
      [] self.t = "Func" ->
           IF force_multiplication
           THEN [do |-> "err", out |-> Err("FunctionViaMultiplication")]
           ELSE IF expect_num(other).kind # "ok"
                THEN [do |-> "err", out |-> expect_num(other)]
                ELSE [do |-> "call", name |-> self.name, arg |-> other.n]
      [] OTHER -> [do |-> "err", out |-> Err("NotAFunctionOrNumber")]

(* ------------------------------- inputs -------------------------------- *)

\* Every name of the two builtin tables, a name bound in Scope ("x") and one
\* bound nowhere ("nope").
AllIdents ==
    GnuFunctions \cup DefaultFunctions \cup
    {"pi", "e", "i", "approx.", "approximately", "auto", "exact", "fraction",
     "float", "dp", "decimal", "hex", "hexadecimal", "binary", "octal", "x", "nope"}

\* The identifiers of the input trees: one of each way of resolving.
IdentInputs == {"pi", "i", "sqrt", "ln", "approx.", "auto", "dp", "hex", "x", "nope"}

Leaves ==
    {Num(Number(v, FALSE)) : v \in 0..MaxNum} \cup {Ident(s) : s \in IdentInputs}

RECURSIVE ExprsOfSize(_)
ExprsOfSize(k) ==
    IF k = 1 THEN Leaves
    ELSE {Unary(u, e) : u \in UnaryKinds, e \in ExprsOfSize(k - 1)} \cup
         UNION {{Binary(o, l, r) : o \in BinaryKinds, l \in ExprsOfSize(j),
                                   r \in ExprsOfSize(k - 1 - j)} : j \in 1..(k - 2)}

Exprs == UNION {ExprsOfSize(k) : k \in 1..MaxNodes}

\* The Scope of the session: bound by statements outside the evaluator.
ScopeInit == [s \in {"x"} |-> VNum(Number(2, FALSE))]

(* ------------------------------- frames -------------------------------- *)

\* One call of evaluate: its expression, its options, where it stands, the
\* place of its node in the input tree, and the value of the child it has
\* evaluated while it evaluates the other.
Frame(e, o, p) ==
    [expr |-> e, options |-> o, pc |-> "entry", path |-> p, held |-> NoValue]

Top == stack[Len(stack)]
Running == Len(stack) > 0
Pop == SubSeq(stack, 1, Len(stack) - 1)

\* The call of evaluate on a child: the caller waits at `pc`.
Push(pc, held, child, idx) ==
    Append([stack EXCEPT ![Len(stack)] = [@ EXCEPT !.pc = pc, !.held = held]],
           Frame(child, Top.options, Top.path \o <<idx>>))

EvPoll(f, req) == [ev |-> "poll", path |-> f.path, nk |-> f.expr.kind, req |-> req]
EvReturn(f, r) == [ev |-> "return", path |-> f.path, nk |-> f.expr.kind, out |-> r]
EvPrim(f, name, arg) ==
    [ev |-> "prim", path |-> f.path, nk |-> f.expr.kind, name |-> name, arg |-> arg]
EvCall(f, name) == [ev |-> "call", path |-> f.path, nk |-> f.expr.kind, name |-> name]
EvResolve(f, d) ==
    [ev |-> "resolve", path |-> f.path, nk |-> f.expr.kind, ident |-> f.expr.ident,
     gnu |-> f.options.gnu_compatible, via |-> d.via, how |-> d]
EvScopeGet(f) ==
    [ev |-> "scope_get", path |-> f.path, nk |-> f.expr.kind, ident |-> f.expr.ident]

\* The call on top of the stack returns `r`, after the events `evs`.
Return(evs, r) ==
    /\ stack' = Pop
    /\ ret' = r
    /\ log' = log \o evs \o <<EvReturn(Top, r)>>

(* -------------------------------- Init --------------------------------- *)

Init ==
    /\ \E e \in Exprs, g \in BOOLEAN :
          stack = <<Frame(e, [gnu_compatible |-> g], <<>>)>>
    /\ ret = None
    /\ int \in BOOLEAN
    /\ scope = ScopeInit
    /\ log = <<>>

(* ------------------------------- actions ------------------------------- *)

\* The caller of the evaluation requests an interrupt.
RequestInterrupt ==
    /\ Running
    /\ ~int
    /\ int' = TRUE
    /\ UNCHANGED <<stack, ret, scope, log>>

\* The poll made and its answer dropped: test_int(int) without the `?`.
TestIntIgnored ==
    /\ Running
    /\ Top.pc = "entry"
    /\ stack' = [stack EXCEPT ![Len(stack)].pc = "match"]
    /\ ret' = None
    /\ log' = Append(log, EvPoll(Top, int))
    /\ UNCHANGED <<int, scope>>

\* test_int(int)?: the poll at the entry of evaluate.
TestInt ==
    /\ Running
    /\ Top.pc = "entry"
    /\ IF test_int(int).kind = "int"
       THEN /\ stack' = Pop
            /\ ret' = Interrupt
            /\ log' = log \o <<EvPoll(Top, int), EvReturn(Top, Interrupt)>>
       ELSE /\ stack' = [stack EXCEPT ![Len(stack)].pc = "match"]
            /\ ret' = None
            /\ log' = Append(log, EvPoll(Top, int))
    /\ UNCHANGED <<int, scope>>

\* Expr::Num(n) => Value::Num(n)
EvalNum ==
    /\ Running
    /\ Top.pc = "match"
    /\ Top.expr.kind = "Num"
    /\ Return(<<>>, Ok(VNum(Top.expr.n)))
    /\ UNCHANGED <<int, scope>>

\* A resolution that polls the interrupt capability again before it answers.
EvalIdentPollsAgain ==
    /\ Running
    /\ Top.pc = "match"
    /\ Top.expr.kind = "Ident"
    /\ LET d == resolve_identifier(Top.expr.ident, Top.options) IN
       IF test_int(int).kind = "int"
       THEN Return(<<EvResolve(Top, d)>>, Interrupt)
       ELSE CASE d.via = "table" -> Return(<<EvResolve(Top, d)>>, d.out)
              [] d.via = "scope" ->
                   Return(<<EvResolve(Top, d), EvScopeGet(Top)>>,
                          scope_get(scope, Top.expr.ident))
              [] d.via = "eval" ->
                   /\ stack' = Append([stack EXCEPT ![Len(stack)].pc = "eval"],
                                      Frame(Parse(d.input), DefaultOptions, Top.path \o <<0>>))
                   /\ ret' = None
                   /\ log' = Append(log, EvResolve(Top, d))
    /\ UNCHANGED <<int, scope>>

\* Expr::Ident(ident) => resolve_identifier(ident, scope, options, int)?
EvalIdent ==
    /\ Running
    /\ Top.pc = "match"
    /\ Top.expr.kind = "Ident"
    /\ LET d == resolve_identifier(Top.expr.ident, Top.options) IN
       CASE d.via = "table" -> Return(<<EvResolve(Top, d)>>, d.out)
         [] d.via = "scope" ->
              Return(<<EvResolve(Top, d), EvScopeGet(Top)>>, scope_get(scope, Top.expr.ident))
         [] d.via = "eval" ->
              /\ stack' = Append([stack EXCEPT ![Len(stack)].pc = "eval"],
                                 Frame(Parse(d.input), DefaultOptions, Top.path \o <<0>>))
              /\ ret' = None
              /\ log' = Append(log, EvResolve(Top, d))
    /\ UNCHANGED <<int, scope>>

\* eval(...)?: the nested evaluation of "pi" or "e" has returned.
EvalReturn ==
    /\ Running
    /\ Top.pc = "eval"
    /\ ret.kind # "none"
    /\ Return(<<>>, unwrap(ret))
    /\ UNCHANGED <<int, scope>>

\* Value::Num(...) around the number a primitive returned.
WrapNum(r) == IF r.kind = "ok" THEN Ok(VNum(r.val)) ELSE r

Step(prims, out) == [prims |-> prims, out |-> out]

\* Parens made to require a number, as the other unary nodes do.
UnaryFinishParensNumeric(k, v, i) ==
    IF expect_num(v).kind # "ok" THEN {Step(<<>>, expect_num(v))}
    ELSE LET n == expect_num(v).val IN
         CASE k \in {"Parens", "UnaryPlus"} -> {Step(<<>>, Ok(VNum(n)))}
           [] k = "UnaryMinus" -> {Step(<<"neg">>, Ok(VNum(neg(n))))}
           [] k = "UnaryDiv" ->
                {Step(<<"div">>, WrapNum(into_string(r))) :
                    r \in PrimOutcomes("div", Number(1, FALSE), n, i)}
           [] k = "Factorial" ->
                {Step(<<"factorial">>, WrapNum(r)) : r \in PrimOutcomes("factorial", n, n, i)}

\* What a unary node makes of the value `v` of its child: the primitives it
\* invokes and its outcome.
UnaryFinish(k, v, i) ==
    IF k = "Parens" THEN {Step(<<>>, Ok(v))}
    ELSE IF expect_num(v).kind # "ok" THEN {Step(<<>>, expect_num(v))}
    ELSE LET n == expect_num(v).val IN
         CASE k = "UnaryMinus" -> {Step(<<"neg">>, Ok(VNum(neg(n))))}
           [] k = "UnaryPlus" -> {Step(<<>>, Ok(VNum(n)))}
           [] k = "UnaryDiv" ->
                {Step(<<"div">>, WrapNum(into_string(r))) :
                    r \in PrimOutcomes("div", Number(1, FALSE), n, i)}
           [] k = "Factorial" ->
                {Step(<<"factorial">>, WrapNum(r)) : r \in PrimOutcomes("factorial", n, n, i)}

\* Parens, UnaryMinus, UnaryPlus, UnaryDiv, Factorial: evaluate(*x)
EvalUnary ==
    /\ Running
    /\ Top.pc = "match"
    /\ Top.expr.kind \in UnaryKinds
    /\ stack' = Push("x", NoValue, Top.expr.x, 1)
    /\ ret' = None
    /\ UNCHANGED <<int, scope, log>>

\* The child of a unary node has returned.
UnaryReturn ==
    /\ Running
    /\ Top.pc = "x"
    /\ ret.kind # "none"
    /\ IF IsFailure(ret) THEN Return(<<>>, ret)
       ELSE \E st \in UnaryFinish(Top.expr.kind, ret.val, int) :
               Return([j \in 1..Len(st.prims) |-> EvPrim(Top, st.prims[j], NoValue)], st.out)
    /\ UNCHANGED <<int, scope>>

\* Every binary node, As too, evaluating its left child first.
FirstChildLeft(k) == 1

\* The child a binary node evaluates first: 1 is a (the left one), 2 is b.
FirstChild(k) == IF k = "As" THEN 2 ELSE 1
SecondChild(k) == 3 - FirstChild(k)
ChildAt(e, idx) == IF idx = 1 THEN e.a ELSE e.b

\* Every binary node: the evaluation of the child that comes first.
EvalBinary ==
    /\ Running
    /\ Top.pc = "match"
    /\ Top.expr.kind \in BinaryKinds
    /\ stack' = Push("first", NoValue, ChildAt(Top.expr, FirstChild(Top.expr.kind)),
                     FirstChild(Top.expr.kind))
    /\ ret' = None
    /\ UNCHANGED <<int, scope, log>>

\* The other child is evaluated, the value `v` of the first one held.
EvalSecond(v) ==
    /\ stack' = Push("second", v, ChildAt(Top.expr, SecondChild(Top.expr.kind)),
                     SecondChild(Top.expr.kind))
    /\ ret' = None
    /\ UNCHANGED log

\* The `?` after evaluate(*a) left out: b evaluated whatever came of a.
ArithFirstReturnNoTry ==
    /\ Running
    /\ Top.pc = "first"
    /\ Top.expr.kind \in ArithKinds
    /\ ret.kind # "none"
    /\ IF ~IsFailure(ret) /\ expect_num(ret.val).kind # "ok"
       THEN Return(<<>>, expect_num(ret.val))
       ELSE EvalSecond(IF IsFailure(ret) THEN VNum(Number(0, FALSE)) ELSE ret.val)
    /\ UNCHANGED <<int, scope>>

\* Add, Sub, Mul, Div, Pow: evaluate(*a)?.expect_num()?
ArithFirstReturn ==
    /\ Running
    /\ Top.pc = "first"
    /\ Top.expr.kind \in ArithKinds
    /\ ret.kind # "none"
    /\ IF IsFailure(ret) THEN Return(<<>>, ret)
       ELSE IF expect_num(ret.val).kind # "ok" THEN Return(<<>>, expect_num(ret.val))
       ELSE EvalSecond(ret.val)
    /\ UNCHANGED <<int, scope>>

\* What an arithmetic node makes of its two numbers.
ArithFinish(k, a, b, i) ==
    {Step(<<ArithPrim(k)>>, WrapNum(IF k = "Div" THEN into_string(r) ELSE r)) :
        r \in PrimOutcomes(ArithPrim(k), a, b, i)}

\* Add, Sub, Mul, Div, Pow: .op(evaluate(*b)?.expect_num()?, int)?
ArithSecondReturn ==
    /\ Running
    /\ Top.pc = "second"
    /\ Top.expr.kind \in ArithKinds
    /\ ret.kind # "none"
    /\ IF IsFailure(ret) THEN Return(<<>>, ret)
       ELSE IF expect_num(ret.val).kind # "ok" THEN Return(<<>>, expect_num(ret.val))
       ELSE \E st \in ArithFinish(Top.expr.kind, Top.held.n, ret.val.n, int) :
               Return(<<EvPrim(Top, st.prims[1], NoValue)>>, st.out)
    /\ UNCHANGED <<int, scope>>

\* Apply, ApplyFunctionCall, ApplyMul: evaluate(*a)?
ApplyFirstReturn ==
    /\ Running
    /\ Top.pc = "first"
    /\ Top.expr.kind \in ApplyKinds
    /\ ret.kind # "none"
    /\ IF IsFailure(ret) THEN Return(<<>>, ret) ELSE EvalSecond(ret.val)
    /\ UNCHANGED <<int, scope>>

\* Apply, ApplyFunctionCall, ApplyMul: .apply(&evaluate(*b)?, .., .., scope, int)?
ApplySecondReturn ==
    /\ Running
    /\ Top.pc = "second"
    /\ Top.expr.kind \in ApplyKinds
    /\ ret.kind # "none"
    /\ IF IsFailure(ret) THEN Return(<<>>, ret)
       ELSE LET ap == apply(Top.held, ret.val, AllowMultiplication(Top.expr.kind),
                            ForceMultiplication(Top.expr.kind)) IN
            CASE ap.do = "err" -> Return(<<>>, ap.out)
              [] ap.do = "mul" ->
                   \E r \in PrimOutcomes("mul", ap.a, ap.b, int) :
                      Return(<<EvPrim(Top, "mul", NoValue)>>, WrapNum(r))
              [] ap.do = "call" ->
                   \E r \in CallOutcomes(ap.name, ap.arg, int) :
                      Return(<<EvCall(Top, ap.name)>>, r)
    /\ UNCHANGED <<int, scope>>

\* As: match evaluate(*b)? { .. }, up to the evaluation of a.
AsFirstReturn ==
    /\ Running
    /\ Top.pc = "first"
    /\ Top.expr.kind = "As"
    /\ ret.kind # "none"
    /\ IF IsFailure(ret) THEN Return(<<>>, ret)
       ELSE IF ret.val.t = "Func"
            THEN Return(<<>>, Err("Unable to convert value to a function"))
            ELSE EvalSecond(ret.val)
    /\ UNCHANGED <<int, scope>>

\* A Base target sent down the unit-conversion path.
AsFinishBaseConverted(target, n, i) ==
    CASE target.t = "Num" ->
           {[prim |-> "convert_to", arg |-> target, out |-> WrapNum(r)] :
               r \in PrimOutcomes("convert_to", n, target.n, i)}
      [] target.t = "Format" ->
           {[prim |-> "with_format", arg |-> target.fmt,
             out |-> Ok(VNum(with_format(n, target.fmt)))]}
      [] target.t = "Dp" ->
           {[prim |-> "with_format", arg |-> FormattingStyle("ApproxFloat", 10),
             out |-> Ok(VNum(with_format(n, FormattingStyle("ApproxFloat", 10))))]}
      [] target.t = "Base" ->
           {[prim |-> "convert_to", arg |-> target, out |-> WrapNum(r)] :
               r \in PrimOutcomes("convert_to", n, n, i)}

\* The conversion of the number `n` that the target `target` selects.
AsFinish(target, n, i) ==
    CASE target.t = "Num" ->
           {[prim |-> "convert_to", arg |-> target, out |-> WrapNum(r)] :
               r \in PrimOutcomes("convert_to", n, target.n, i)}
      [] target.t = "Format" ->
           {[prim |-> "with_format", arg |-> target.fmt,
             out |-> Ok(VNum(with_format(n, target.fmt)))]}
      [] target.t = "Dp" ->
           {[prim |-> "with_format", arg |-> FormattingStyle("ApproxFloat", 10),
             out |-> Ok(VNum(with_format(n, FormattingStyle("ApproxFloat", 10))))]}
      [] target.t = "Base" ->
           {[prim |-> "with_base", arg |-> target.base,
             out |-> Ok(VNum(with_base(n, target.base)))]}

\* A left operand that is no number reported as a conversion to a function.
AsSecondReturnFunctionError ==
    /\ Running
    /\ Top.pc = "second"
    /\ Top.expr.kind = "As"
    /\ ret.kind # "none"
    /\ IF IsFailure(ret) THEN Return(<<>>, ret)
       ELSE IF expect_num(ret.val).kind # "ok"
            THEN Return(<<>>, Err("Unable to convert value to a function"))
       ELSE \E st \in AsFinish(Top.held, ret.val.n, int) :
               Return(<<EvPrim(Top, st.prim, st.arg)>>, st.out)
    /\ UNCHANGED <<int, scope>>

\* As: evaluate(*a)?.expect_num()? and the conversion.
AsSecondReturn ==
    /\ Running
    /\ Top.pc = "second"
    /\ Top.expr.kind = "As"
    /\ ret.kind # "none"
    /\ IF IsFailure(ret) THEN Return(<<>>, ret)
       ELSE IF expect_num(ret.val).kind # "ok" THEN Return(<<>>, expect_num(ret.val))
       ELSE \E st \in AsFinish(Top.held, ret.val.n, int) :
               Return(<<EvPrim(Top, st.prim, st.arg)>>, st.out)
    /\ UNCHANGED <<int, scope>>

Next ==
    \/ RequestInterrupt
    \/ TestInt
    \/ EvalNum
    \/ EvalIdent
    \/ EvalReturn
    \/ EvalUnary
    \/ UnaryReturn
    \/ EvalBinary
    \/ ArithFirstReturn
    \/ ArithSecondReturn
    \/ ApplyFirstReturn
    \/ ApplySecondReturn
    \/ AsFirstReturn
    \/ AsSecondReturn

Spec == Init /\ [][Next]_vars

\* The resolution of single identifiers, over every name of the tables.
InitResolve ==
    /\ \E s \in AllIdents, g \in BOOLEAN :
          stack = <<Frame(Ident(s), [gnu_compatible |-> g], <<>>)>>
    /\ ret = None
    /\ int \in BOOLEAN
    /\ scope = ScopeInit
    /\ log = <<>>

NextResolve ==
    \/ RequestInterrupt
    \/ TestInt
    \/ EvalIdent
    \/ EvalReturn
    \/ EvalNum
    \/ EvalBinary
    \/ ApplyFirstReturn
    \/ ApplySecondReturn

SpecResolve == InitResolve /\ [][NextResolve]_vars

(* --------------------------- reading the log --------------------------- *)

IsPrefix(p, q) == Len(p) <= Len(q) /\ SubSeq(q, 1, Len(p)) = p

Events(kind) == {k \in DOMAIN log : log[k].ev = kind}
EventsAt(kind, p) == {k \in Events(kind) : log[k].path = p}

\* The node at `p` has returned a value; ValueOf(p) is that value.
ReturnedOk(p) == \E k \in EventsAt("return", p) : log[k].out.kind = "ok"
ValueOf(p) == log[CHOOSE k \in EventsAt("return", p) : TRUE].out.val

\* The names of the primitives invoked by the node at `p`, in order.
PrimsAt(p) ==
    LET idx == EventsAt("prim", p) IN
    [j \in 1..Cardinality(idx) |->
        LET k == CHOOSE k \in idx : Cardinality({m \in idx : m <= k}) = j IN
        [name |-> log[k].name, arg |-> log[k].arg]]

Done == ~Running

(* ------------------------------- claims -------------------------------- *)

\* C1. Cancellation precedence: a call of evaluate that finds the interrupt
\* requested at its poll returns Interrupt at once: the next thing recorded
\* after the poll is the return of that same node, so no child is evaluated,
\* no identifier resolved, no Scope lookup made and no primitive invoked.
\* Every call polls exactly once, and before anything else it does.
C1_CancellationPrecedence ==
    /\ \A k \in Events("poll") :
          log[k].req =>
             /\ k < Len(log)
             /\ log[k + 1].ev = "return"
             /\ log[k + 1].path = log[k].path
             /\ log[k + 1].out = Interrupt
    /\ \A k, m \in Events("poll") : log[k].path = log[m].path => k = m
    /\ \A k \in DOMAIN log :
          log[k].ev # "poll" =>
             \E m \in EventsAt("poll", log[k].path) : m < k
    /\ \A f \in DOMAIN stack :
          (stack[f].pc = "entry") <=> (EventsAt("poll", stack[f].path) = {})

\* An interrupt found at the poll of a node below the root, the evaluation
\* over with Interrupt.
C1_Witness ==
    /\ Done
    /\ ret = Interrupt
    /\ \E k \in Events("poll") : log[k].req /\ Len(log[k].path) = 2


\* The one primitive, with its argument, that the kind of a target selects.
C2_Expected(target) ==
    CASE target.t = "Num" -> [name |-> "convert_to", arg |-> target]
      [] target.t = "Format" -> [name |-> "with_format", arg |-> target.fmt]
      [] target.t = "Dp" ->
           [name |-> "with_format", arg |-> [name |-> "ApproxFloat", digits |-> 10]]
      [] target.t = "Base" -> [name |-> "with_base", arg |-> target.base]

\* C2. Conversion dispatch: what an As node invokes on the number of its left
\* operand is decided by the kind of the value of its right operand alone:
\* Numeric, convert_to; Format directive, with_format of that directive;
\* Precision marker, with_format of the approximate float of 10 digits; Base
\* marker, with_base of that base; each exactly once and nothing else.  A
\* Function reference invokes nothing and is the "convert value to a
\* function" error.  Without a Numeric left operand nothing is invoked.
C2_ConversionDispatch ==
    \A k \in Events("return") :
       LET p == log[k].path
           l == p \o <<1>>
           r == p \o <<2>>
       IN  (log[k].nk = "As" /\ ReturnedOk(r)) =>
              /\ ValueOf(r).t = "Func" =>
                    /\ PrimsAt(p) = <<>>
                    /\ log[k].out = Err("Unable to convert value to a function")
              /\ (ValueOf(r).t # "Func" /\ ReturnedOk(l) /\ ValueOf(l).t = "Num") =>
                    PrimsAt(p) = <<C2_Expected(ValueOf(r))>>
              /\ (ValueOf(r).t # "Func" /\ ~(ReturnedOk(l) /\ ValueOf(l).t = "Num")) =>
                    PrimsAt(p) = <<>>

\* A number converted by a Base marker: with_base invoked, the result in
\* base 16.
C2_Witness ==
    \E k \in Events("return") :
       /\ log[k].nk = "As"
       /\ ReturnedOk(log[k].path \o <<2>>)
       /\ ValueOf(log[k].path \o <<2>>).t = "Base"
       /\ PrimsAt(log[k].path) = <<[name |-> "with_base", arg |-> 16]>>
       /\ log[k].out.kind = "ok"
       /\ log[k].out.val.n.base = 16

\* C3. Implicit apply against forced multiply: with a left operand that is a
\* Function reference and a Numeric right operand, an Apply node invokes that
\* function, and an ApplyMul node never invokes it and is an error.
C3_ApplyVsApplyMul ==
    \A k \in Events("return") :
       LET p == log[k].path
           l == p \o <<1>>
           r == p \o <<2>>
       IN  (/\ log[k].nk \in {"Apply", "ApplyMul"}
            /\ ReturnedOk(l) /\ ValueOf(l).t = "Func"
            /\ ReturnedOk(r) /\ ValueOf(r).t = "Num") =>
              IF log[k].nk = "Apply"
              THEN /\ \E c \in EventsAt("call", p) : log[c].name = ValueOf(l).name
                   /\ PrimsAt(p) = <<>>
              ELSE /\ EventsAt("call", p) = {}
                   /\ PrimsAt(p) = <<>>
                   /\ log[k].out.kind = "err"

\* An ApplyMul node over a function and a number has returned its error.
C3_Witness ==
    \E k \in Events("return") :
       /\ log[k].nk = "ApplyMul"
       /\ ReturnedOk(log[k].path \o <<1>>)
       /\ ValueOf(log[k].path \o <<1>>).t = "Func"
       /\ ReturnedOk(log[k].path \o <<2>>)
       /\ ValueOf(log[k].path \o <<2>>).t = "Num"
       /\ log[k].out.kind = "err"

\* C4. Explicit-call strictness: an ApplyFunctionCall node whose left operand
\* is a value other than a Function reference never returns a value and never
\* multiplies; once its right operand has a value too, it is a domain error.
C4_ExplicitCallStrict ==
    \A k \in Events("return") :
       LET p == log[k].path
           l == p \o <<1>>
           r == p \o <<2>>
       IN  (log[k].nk = "ApplyFunctionCall" /\ ReturnedOk(l) /\ ValueOf(l).t # "Func") =>
              /\ log[k].out.kind \in {"err", "int"}
              /\ PrimsAt(p) = <<>>
              /\ EventsAt("call", p) = {}
              /\ ReturnedOk(r) => log[k].out.kind = "err"

\* An explicit call of a number on a number, a pair an Apply node multiplies.
C4_Witness ==
    \E k \in Events("return") :
       /\ log[k].nk = "ApplyFunctionCall"
       /\ ReturnedOk(log[k].path \o <<1>>)
       /\ ReturnedOk(log[k].path \o <<2>>)
       /\ apply(ValueOf(log[k].path \o <<1>>), ValueOf(log[k].path \o <<2>>),
                AllowMultiplication("Apply"), ForceMultiplication("Apply")).do = "mul"
       /\ log[k].out.kind = "err"

\* C5. Hard stop on failure: after the first return of a domain error or an
\* Interrupt, nothing but returns is recorded (no node visited, nothing
\* resolved, no primitive invoked), every one of them of the kind of that
\* failure, and the evaluation ends in one outcome of that kind.
C5_HardStop ==
    /\ \A k, m \in DOMAIN log :
          (k < m /\ log[k].ev = "return" /\ log[k].out.kind # "ok") =>
             /\ log[m].ev = "return"
             /\ log[m].out.kind = log[k].out.kind
             /\ log[k].out.kind \in {"err", "int"}
    /\ Done =>
          /\ ret.kind \in {"ok", "err", "int"}
          /\ Cardinality(EventsAt("return", <<>>)) = 1
          /\ log[Len(log)] = [ev |-> "return", path |-> <<>>,
                              nk |-> log[Len(log)].nk, out |-> ret]

\* A failure two levels down has come up to the caller unchanged.
C5_Witness ==
    /\ Done
    /\ \E k \in Events("return") :
          /\ Len(log[k].path) = 2
          /\ log[k].out.kind = "err"
          /\ ret = log[k].out


\* The names the compatibility mode is to resolve by itself.
C6_GnuNames ==
    {"exp", "sqrt", "ln", "log2", "log10", "tan", "asin", "approx.", "approximately"}

\* C6. The table of the compatibility mode within the default one: in the
\* compatibility mode the names exp, sqrt, ln, log2, log10, tan, asin,
\* approx. and approximately, and no others, resolve without a Scope lookup;
\* each to a Function reference, the one the default mode resolves the same
\* name to.  Every other name is resolved by a Scope lookup alone.
C6_GnuTableSubset ==
    \A k \in Events("resolve") :
       log[k].gnu =>
          IF log[k].ident \in C6_GnuNames
          THEN /\ log[k].via = "table"
               /\ log[k].how.out.kind = "ok"
               /\ log[k].how.out.val.t = "Func"
               /\ resolve_identifier(log[k].ident, [gnu_compatible |-> FALSE]) = log[k].how
               /\ EventsAt("scope_get", log[k].path) = {}
               /\ \A m \in EventsAt("return", log[k].path) : log[m].out = log[k].how.out
          ELSE /\ log[k].via = "scope"
               /\ k < Len(log)
               /\ log[k + 1].ev = "scope_get"
               /\ log[k + 1].ident = log[k].ident
               /\ \A m \in EventsAt("return", log[k].path) :
                     log[m].out = scope_get(scope, log[k].ident)

\* "approximately" resolved in the compatibility mode, "pi" left to Scope.
C6_Witness ==
    \E k \in Events("resolve") :
       /\ log[k].gnu
       /\ log[k].ident = "approximately"
       /\ \E m \in EventsAt("return", log[k].path) : log[m].out = Ok(VFunc("approximately"))

\* The polls made from the poll of the node at `p` to its return.
PollsUnder(p) == {k \in Events("poll") : IsPrefix(p, log[k].path)}

C8_Original ==
    \A k \in Events("return") :
       LET c == log[k].path \o <<1>> IN
       (log[k].nk \in {"Parens", "UnaryPlus"} /\ ReturnedOk(c)) =>
          IF ValueOf(c).t = "Num" THEN log[k].out = Ok(ValueOf(c))
          ELSE log[k].out.kind = "err"

\* C8, amended. UnaryPlus returns the Numeric value of its child unchanged
\* and is an error over a child of any other kind; Parens returns the value
\* of its child unchanged whatever its kind.
C8_ParensPassThrough ==
    \A k \in Events("return") :
       LET c == log[k].path \o <<1>> IN
       (log[k].nk \in {"Parens", "UnaryPlus"} /\ ReturnedOk(c)) =>
          /\ PrimsAt(log[k].path) = <<>>
          /\ IF log[k].nk = "Parens" \/ ValueOf(c).t = "Num"
             THEN log[k].out = Ok(ValueOf(c))
             ELSE log[k].out = expect_num(ValueOf(c))

\* A Function reference has come out of a Parens node.
C8_Witness ==
    \E k \in Events("return") :
       /\ log[k].nk = "Parens"
       /\ log[k].out.kind = "ok"
       /\ log[k].out.val.t = "Func"

\* C9 as claimed. An As node over a Function reference on the left and a
\* number on the right fails with the "convert value to a function" error.
C9_Original ==
    \A k \in Events("return") :
       LET l == log[k].path \o <<1>>
           r == log[k].path \o <<2>>
       IN  (/\ log[k].nk = "As"
            /\ ReturnedOk(l) /\ ValueOf(l).t = "Func"
            /\ ReturnedOk(r) /\ ValueOf(r).t = "Num") =>
              log[k].out = Err("Unable to convert value to a function")

\* C9, amended. An As node over a Function reference on the left and a
\* number on the right fails with the type mismatch of expect_num, nothing
\* converted.  An As node makes the "convert value to a function" error when
\* its right operand is a Function reference, and only then.
C9_ConvertFunction ==
    \A k \in Events("return") :
       LET l == log[k].path \o <<1>>
           r == log[k].path \o <<2>>
       IN  log[k].nk = "As" =>
              /\ (/\ ReturnedOk(l) /\ ValueOf(l).t = "Func"
                  /\ ReturnedOk(r) /\ ValueOf(r).t = "Num") =>
                    /\ log[k].out = expect_num(ValueOf(l))
                    /\ log[k].out # Err("Unable to convert value to a function")
                    /\ PrimsAt(log[k].path) = <<>>
              /\ (ReturnedOk(r) /\ ValueOf(r).t = "Func") =>
                    log[k].out = Err("Unable to convert value to a function")
              /\ (/\ log[k].out = Err("Unable to convert value to a function")
                  /\ ~(ReturnedOk(r) /\ ValueOf(r).t = "Func")) =>
                    \E m \in EventsAt("return", l) \cup EventsAt("return", r) :
                       log[m].out = log[k].out

\* "ln as 1": the As node has failed over its left operand.
C9_Witness ==
    \E k \in Events("return") :
       /\ log[k].nk = "As"
       /\ ReturnedOk(log[k].path \o <<1>>)
       /\ ValueOf(log[k].path \o <<1>>) = VFunc("ln")
       /\ ReturnedOk(log[k].path \o <<2>>)
       /\ ValueOf(log[k].path \o <<2>>).t = "Num"
       /\ log[k].out.kind = "err"

\* The order part of C10, of the binary nodes other than As: a node of
\* the right subtree is visited after every visit of the left subtree, and
\* after the left child has returned a value.  Of an As node: a node of the
\* left subtree is visited after the right child has returned a value.
C10_Order ==
    \A n \in Events("poll") :
       LET p == log[n].path
           l == p \o <<1>>
           r == p \o <<2>>
       IN  log[n].nk \in BinaryKinds =>
              IF log[n].nk = "As"
              THEN \A k \in PollsUnder(l) :
                      /\ \A m \in PollsUnder(r) : m < k
                      /\ \E m \in EventsAt("return", r) : m < k /\ log[m].out.kind = "ok"
              ELSE \A k \in PollsUnder(r) :
                      /\ \A m \in PollsUnder(l) : m < k
                      /\ \E m \in EventsAt("return", l) : m < k /\ log[m].out.kind = "ok"

\* C10 as claimed. The order of the children, and in every branch of an As
\* node, its right child evaluated, the left child is evaluated and required
\* to be Numeric.
C10_Original ==
    /\ C10_Order
    /\ \A k \in Events("return") :
          (log[k].nk = "As" /\ ReturnedOk(log[k].path \o <<2>>)) =>
             /\ EventsAt("poll", log[k].path \o <<1>>) # {}
             /\ log[k].out.kind = "ok" =>
                   (ReturnedOk(log[k].path \o <<1>>) /\ ValueOf(log[k].path \o <<1>>).t = "Num")

\* C10, amended. The order of the children, and in every branch of an As
\* node but that of a Function reference, its right child evaluated, the left
\* child is evaluated and required to be Numeric; when the right child is a
\* Function reference the node fails without its left child being visited.
C10_ChildOrder ==
    /\ C10_Order
    /\ \A k \in Events("return") :
          (log[k].nk = "As" /\ ReturnedOk(log[k].path \o <<2>>)) =>
             IF ValueOf(log[k].path \o <<2>>).t = "Func"
             THEN /\ PollsUnder(log[k].path \o <<1>>) = {}
                  /\ log[k].out.kind = "err"
             ELSE /\ EventsAt("poll", log[k].path \o <<1>>) # {}
                  /\ log[k].out.kind = "ok" =>
                        (/\ ReturnedOk(log[k].path \o <<1>>)
                         /\ ValueOf(log[k].path \o <<1>>).t = "Num")

\* An As node whose target is a Function reference has failed, its left
\* child never visited.
C10_Witness ==
    \E k \in Events("return") :
       /\ log[k].nk = "As"
       /\ ReturnedOk(log[k].path \o <<2>>)
       /\ ValueOf(log[k].path \o <<2>>).t = "Func"
       /\ PollsUnder(log[k].path \o <<1>>) = {}
       /\ log[k].out.kind = "err"

====
